---- MODULE Spec2Model ----
(***************************************************************************)
(* Review-management dashboard: the datastore (locations, reviews, their  *)
(* constraints and row-level-security policies), the LocationDashboard     *)
(* view model (fetch, filter, statistics) and the AdminDashboard view      *)
(* model (list, modal, submit, delete).                                    *)
(***************************************************************************)
EXTENDS Integers, Sequences, FiniteSets, TLC

\* ------------------------------------------------------------------ bounds
\* Location rows ever inserted (ids are never reused, as uuids are not).
MaxLocations == 2
\* Review rows ever inserted.
MaxReviewRows == 1
\* Length of a review list handed to the LocationDashboard view.
MaxReviews == 2
\* Changes of the signed-in user while LocationDashboard is mounted.
MaxUserChanges == 2

\* ------------------------------------------------------- program constants
MinRating == 1
MaxRating == 5

Ratings == MinRating..MaxRating

\* A nullable value: None is SQL NULL / JS null, Some(x) a present value.
None == <<>>
Some(x) == <<x>>

\* SQL equality: a comparison with NULL is never true.
SqlEq(a, b) == a # None /\ b # None /\ a = b

\* ------------------------------------------------------------ input domains
UserIds == {"u1", "u2"}
PlaceIds == {"p1", "p2"}
Names == {"n1"}
ChatIds == {"t1"}
Owners == {None} \cup {Some(u) : u \in UserIds}
\* Ratings offered to the datastore: both edges of the range and one past each.
RatingInputs == {MinRating - 1, MinRating, MaxRating, MaxRating + 1}

\* Strings are sequences of one-character strings.
NameAb == <<"A", "b">>
NameB == <<"b">>
TextBa == <<"B", "a">>

\* Session claims of a caller: the database role, the identity (auth.uid())
\* and app_metadata.role.
AdminCaller == [pg_role |-> "authenticated", uid |-> Some("a1"), app_role |-> "admin"]
UserCaller(u) == [pg_role |-> "authenticated", uid |-> Some(u), app_role |-> "none"]
ServiceCaller == [pg_role |-> "service_role", uid |-> None, app_role |-> "none"]
Callers == {AdminCaller, UserCaller("u1"), ServiceCaller}

\* Error codes of the datastore and of the transport.
ErrRls == "42501"
ErrUnique == "23505"
ErrFk == "23503"
ErrCheck == "23514"
ErrColumn == "42703"
ErrNetwork == "network"

VARIABLES
  locations,    \* the locations table: a set of rows
  dbReviews,    \* the reviews table: a set of rows
  nextLocId,    \* next location id / created_at stamp
  nextRevId,    \* next review id
  lastOp,       \* the datastore call just made: [op, caller, err, removed]
  lastRows      \* ids of the rows that call returned or affected

dbVars == <<locations, dbReviews, nextLocId, nextRevId, lastOp, lastRows>>

\* ---- LocationDashboard: the review list, its filter and statistics
VARIABLES
  reviews,          \* useState<Review[]>: the fetched review list
  filteredReviews,  \* useState<Review[]>: the displayed list
  searchQuery,      \* useState(''): the search text
  ratingFilter,     \* useState<number | null>: None or Some(rating)
  filterPending,    \* the filter effect is scheduled (a dependency changed)
  stats,            \* calculateStats() of the current render
  reviewsData       \* the rows the reviews query in flight returns

filterVars ==
  <<reviews, filteredReviews, searchQuery, ratingFilter, filterPending, stats, reviewsData>>

\* ---- LocationDashboard: the signed-in user and the fetch
VARIABLES
  user,         \* useAuth().user: None or Some([id, email])
  location,     \* useState<Location | null>
  loading,      \* useState(true)
  fetch,        \* fetchLocationAndReviews in flight: its position and what it holds
  older,        \* a call an earlier run of the effect started, not yet returned
  userChanges,  \* how often the signed-in user has changed since the mount
  locConsole,   \* messages console.error has logged
  locAlerts     \* messages alert() has shown

locVars == <<user, location, loading, fetch, older, userChanges, locConsole, locAlerts>>

\* ---- AdminDashboard
VARIABLES
  adminLocations,   \* useState<Location[]>: the listed locations
  adminLoading,     \* useState(true)
  isModalOpen,      \* useState(false)
  editingLocation,  \* useState<Location | null>
  formData,         \* useState<LocationInsert>: name, place_id, telegram_chat_id
  error,            \* useState(''): the message shown in the modal
  mountFetch,       \* the fetchLocations call of the mount effect
  submit,           \* handleSubmit in flight: its position and what it captured
  del,              \* handleDelete in flight: its position and the id
  adminConsole,     \* messages console.error has logged
  adminAlerts,      \* messages alert() has shown
  lastCall          \* the remote call that returned last: whether it failed

adminVars ==
  <<adminLocations, adminLoading, isModalOpen, editingLocation, formData, error,
    mountFetch, submit, del, adminConsole, adminAlerts, lastCall>>

vars == <<dbVars, filterVars, locVars, adminVars>>

\* ------------------------------------------------------------ schema
\* Columns of the locations table.
LocationColumns ==
  {"id", "place_id", "telegram_chat_id", "name", "user_id", "created_at", "updated_at"}

\* The column without its UNIQUE constraint.
PlaceIdUnique_Absent(row, others) == TRUE

\* place_id text UNIQUE NOT NULL: no other row holds the place_id.
PlaceIdUnique(row, others) == \A o \in others : o.place_id # row.place_id

\* The CHECK with its lower edge at 0.
RatingCheck_FromZero(rating) == rating >= 0 /\ rating <= MaxRating

\* rating int NOT NULL CHECK (rating >= 1 AND rating <= 5)
RatingCheck(rating) == rating >= MinRating /\ rating <= MaxRating

\* location_id uuid NOT NULL REFERENCES locations(id)
LocationFk(location_id, locs) == \E l \in locs : l.id = location_id

\* A foreign key without the cascade: the reviews stay.
CascadeDelete_None(ids, revs) == revs

\* ON DELETE CASCADE: the reviews that survive the deletion of the locations `ids`.
CascadeDelete(ids, revs) == {r \in revs : r.location_id \notin ids}

\* ------------------------------------------------------------ policies
\* Row-level security is enabled, not forced: a role that bypasses it sees all.
BypassRls(c) == c.pg_role = "service_role"

\* The admin test reading the top-level role claim (the database role) instead.
AdminPolicy_TopLevelRole(c) == c.pg_role = "admin"

\* (auth.jwt()->>'app_metadata')::jsonb->>'role' = 'admin', TO authenticated
AdminPolicy(c) == c.pg_role = "authenticated" /\ c.app_role = "admin"

\* The owner test that also lets unassigned rows through.
LocationUserPolicy_NullOwner(c, row) ==
  c.pg_role = "authenticated" /\ (row.user_id = None \/ SqlEq(row.user_id, c.uid))

\* "Location users can view their location": USING (user_id = auth.uid())
LocationUserPolicy(c, row) == c.pg_role = "authenticated" /\ SqlEq(row.user_id, c.uid)

\* The SELECT policies of locations are permissive: any one suffices.
LocSelectUsing(c, row) == BypassRls(c) \/ AdminPolicy(c) \/ LocationUserPolicy(c, row)
LocInsertCheck(c) == BypassRls(c) \/ AdminPolicy(c)
LocUpdateUsing(c) == BypassRls(c) \/ AdminPolicy(c)
LocDeleteUsing(c) == BypassRls(c) \/ AdminPolicy(c)

VisibleLocations(c, locs) == {l \in locs : LocSelectUsing(c, l)}

\* "Location users can view their reviews": EXISTS (SELECT 1 FROM locations
\* WHERE locations.id = reviews.location_id AND locations.user_id = auth.uid());
\* the sub-select runs under the caller's own policies on locations.
ReviewUserPolicy(c, row, locs) ==
  /\ c.pg_role = "authenticated"
  /\ \E l \in VisibleLocations(c, locs) :
       l.id = row.location_id /\ SqlEq(l.user_id, c.uid)

RevSelectUsing(c, row, locs) ==
  BypassRls(c) \/ AdminPolicy(c) \/ ReviewUserPolicy(c, row, locs)
\* reviews has no INSERT, UPDATE or DELETE policy.
RevWriteAllowed(c) == BypassRls(c)

VisibleReviews(c, locs, revs) == {r \in revs : RevSelectUsing(c, r, locs)}

\* ------------------------------------------------------------ datastore calls
\* Each call returns [err, rows, locations, reviews]: the error (None on
\* success), the rows returned or affected, and the tables afterwards.
Result(err, rows, locs, revs) ==
  [err |-> err, rows |-> rows, locations |-> locs, reviews |-> revs]

\* A row with the fields of `patch` overwritten.
Patched(row, patch) ==
  [f \in DOMAIN row |-> IF f \in DOMAIN patch THEN patch[f] ELSE row[f]]

NewLocation(id, form) ==
  [id |-> id, place_id |-> form.place_id, telegram_chat_id |-> form.telegram_chat_id,
   name |-> form.name,
   user_id |-> IF "user_id" \in DOMAIN form THEN form.user_id ELSE None,
   created_at |-> id]

\* from('locations').select('*').eq(column, value)
SelectLocations(c, column, value, locs, revs) ==
  IF column \notin LocationColumns
  THEN Result(Some(ErrColumn), {}, locs, revs)
  ELSE Result(None,
              {l \in VisibleLocations(c, locs) :
                 IF column = "user_id" THEN SqlEq(l.user_id, Some(value))
                 ELSE l[column] = value},
              locs, revs)

\* from('locations').select('*')
SelectAllLocations(c, locs, revs) == Result(None, VisibleLocations(c, locs), locs, revs)

\* from('locations').insert([form])
InsertLocation(c, id, form, locs, revs) ==
  IF ~LocInsertCheck(c) THEN Result(Some(ErrRls), {}, locs, revs)
  ELSE IF ~PlaceIdUnique(NewLocation(id, form), locs)
  THEN Result(Some(ErrUnique), {}, locs, revs)
  ELSE Result(None, {NewLocation(id, form)}, locs \cup {NewLocation(id, form)}, revs)

\* from('locations').update(patch).eq('id', id)
UpdateLocation(c, id, patch, locs, revs) ==
  LET targets == {l \in locs : l.id = id /\ LocUpdateUsing(c) /\ LocSelectUsing(c, l)}
      new == {Patched(l, patch) : l \in targets}
  IN IF \E n \in new : ~PlaceIdUnique(n, locs \ targets)
     THEN Result(Some(ErrUnique), {}, locs, revs)
     ELSE Result(None, new, (locs \ targets) \cup new, revs)

\* from('locations').delete().eq('id', id)
DeleteLocation(c, id, locs, revs) ==
  LET targets == {l \in locs : l.id = id /\ LocDeleteUsing(c) /\ LocSelectUsing(c, l)}
  IN Result(None, targets, locs \ targets,
            CascadeDelete({l.id : l \in targets}, revs))

\* from('reviews').select('*').eq('location_id', location_id)
SelectReviews(c, location_id, locs, revs) ==
  Result(None, {r \in VisibleReviews(c, locs, revs) : r.location_id = location_id},
         locs, revs)

\* INSERT INTO reviews
InsertReview(c, row, locs, revs) ==
  IF ~RevWriteAllowed(c) THEN Result(Some(ErrRls), {}, locs, revs)
  ELSE IF ~RatingCheck(row.rating) THEN Result(Some(ErrCheck), {}, locs, revs)
  ELSE IF ~LocationFk(row.location_id, locs) THEN Result(Some(ErrFk), {}, locs, revs)
  ELSE Result(None, {row}, locs, revs \cup {row})

\* UPDATE reviews SET ... WHERE id = id
UpdateReview(c, id, patch, locs, revs) ==
  LET targets == {r \in revs : r.id = id /\ RevWriteAllowed(c)}
      new == {Patched(r, patch) : r \in targets}
  IN IF \E n \in new : ~RatingCheck(n.rating)
     THEN Result(Some(ErrCheck), {}, locs, revs)
     ELSE IF \E n \in new : ~LocationFk(n.location_id, locs)
     THEN Result(Some(ErrFk), {}, locs, revs)
     ELSE Result(None, new, locs, (revs \ targets) \cup new)

\* DELETE FROM reviews WHERE id = id
DeleteReview(c, id, locs, revs) ==
  LET targets == {r \in revs : r.id = id /\ RevWriteAllowed(c)}
  IN Result(None, targets, locs, revs \ targets)

Ids(rows) == {r.id : r \in rows}

\* ------------------------------------------------------------ datastore steps
LocationForms ==
  [place_id : PlaceIds, telegram_chat_id : ChatIds, name : Names, user_id : Owners]
LocationPatches == [place_id : PlaceIds] \cup [user_id : Owners]
ReviewPatches == [rating : RatingInputs] \cup [location_id : 1..MaxLocations]

NewReview(id, location_id, rating) ==
  [id |-> id, location_id |-> location_id, reviewer_name |-> NameAb,
   review_text |-> None, rating |-> rating, review_date |-> id]

\* The tables and the call record after the call that returned `res`.
Applied(op, c, res) ==
  /\ locations' = res.locations
  /\ dbReviews' = res.reviews
  /\ lastOp' = [op |-> op, caller |-> c, err |-> res.err,
                removed |-> Ids(dbReviews) \ Ids(res.reviews)]
  /\ lastRows' = Ids(res.rows)

DbInsertLocation ==
  \E c \in Callers, form \in LocationForms :
    /\ nextLocId <= MaxLocations
    /\ LET res == InsertLocation(c, nextLocId, form, locations, dbReviews)
       IN /\ Applied("insertLocation", c, res)
          /\ nextLocId' = IF res.err = None THEN nextLocId + 1 ELSE nextLocId
    /\ UNCHANGED <<nextRevId, filterVars, locVars, adminVars>>

DbUpdateLocation ==
  \E c \in Callers, id \in 1..MaxLocations, patch \in LocationPatches :
    /\ Applied("updateLocation", c, UpdateLocation(c, id, patch, locations, dbReviews))
    /\ UNCHANGED <<nextLocId, nextRevId, filterVars, locVars, adminVars>>

DbDeleteLocation ==
  \E c \in Callers, id \in 1..MaxLocations :
    /\ Applied("deleteLocation", c, DeleteLocation(c, id, locations, dbReviews))
    /\ UNCHANGED <<nextLocId, nextRevId, filterVars, locVars, adminVars>>

DbSelectLocations ==
  \E c \in Callers :
    /\ Applied("selectLocations", c, SelectAllLocations(c, locations, dbReviews))
    /\ UNCHANGED <<nextLocId, nextRevId, filterVars, locVars, adminVars>>

DbSelectReviews ==
  \E c \in Callers, id \in 1..MaxLocations :
    /\ Applied("selectReviews", c, SelectReviews(c, id, locations, dbReviews))
    /\ UNCHANGED <<nextLocId, nextRevId, filterVars, locVars, adminVars>>

DbInsertReview ==
  \E c \in Callers, location_id \in 1..MaxLocations, rating \in RatingInputs :
    /\ nextRevId <= MaxReviewRows
    /\ LET res == InsertReview(c, NewReview(nextRevId, location_id, rating),
                               locations, dbReviews)
       IN /\ Applied("insertReview", c, res)
          /\ nextRevId' = IF res.err = None THEN nextRevId + 1 ELSE nextRevId
    /\ UNCHANGED <<nextLocId, filterVars, locVars, adminVars>>

DbUpdateReview ==
  \E c \in Callers, id \in 1..MaxReviewRows, patch \in ReviewPatches :
    /\ Applied("updateReview", c, UpdateReview(c, id, patch, locations, dbReviews))
    /\ UNCHANGED <<nextLocId, nextRevId, filterVars, locVars, adminVars>>

DbDeleteReview ==
  \E c \in Callers, id \in 1..MaxReviewRows :
    /\ Applied("deleteReview", c, DeleteReview(c, id, locations, dbReviews))
    /\ UNCHANGED <<nextLocId, nextRevId, filterVars, locVars, adminVars>>

DbInit ==
  /\ locations = {}
  /\ dbReviews = {}
  /\ nextLocId = 1
  /\ nextRevId = 1
  /\ lastOp = [op |-> "none", caller |-> ServiceCaller, err |-> None, removed |-> {}]
  /\ lastRows = {}

DbNext ==
  \/ DbInsertLocation
  \/ DbUpdateLocation
  \/ DbDeleteLocation
  \/ DbSelectLocations
  \/ DbSelectReviews
  \/ DbInsertReview
  \/ DbUpdateReview
  \/ DbDeleteReview

\* ================================================================ LocationDashboard
\* String.prototype.toLowerCase, one character
LowerChar(ch) == CASE ch = "A" -> "a" [] ch = "B" -> "b" [] OTHER -> ch

\* String.prototype.toLowerCase
ToLowerCase(s) == [i \in 1..Len(s) |-> LowerChar(s[i])]

\* String.prototype.includes
Includes(s, t) == \E i \in 0..(Len(s) - Len(t)) : SubSeq(s, i + 1, i + Len(t)) = t

\* The search predicate of filterReviews, without the lower-casing of the query.
TextMatches_CaseSensitive(review, query) ==
  \/ Includes(ToLowerCase(review.reviewer_name), query)
  \/ /\ review.review_text # None
     /\ Includes(ToLowerCase(review.review_text[1]), query)

\* review.reviewer_name?.toLowerCase().includes(searchQuery.toLowerCase()) ||
\* review.review_text?.toLowerCase().includes(searchQuery.toLowerCase())
TextMatches(review, query) ==
  \/ Includes(ToLowerCase(review.reviewer_name), ToLowerCase(query))
  \/ /\ review.review_text # None
     /\ Includes(ToLowerCase(review.review_text[1]), ToLowerCase(query))

\* The rating predicate with >= in place of ===.
RatingMatches_AtLeast(review, rating) == review.rating >= rating

\* review.rating === ratingFilter
RatingMatches(review, rating) == review.rating = rating

\* filterReviews: the list handed to setFilteredReviews
FilterReviews(revs, query, rf) ==
  LET byText == IF query # <<>>
                THEN SelectSeq(revs, LAMBDA r : TextMatches(r, query))
                ELSE revs
  IN IF rf # None
     THEN SelectSeq(byText, LAMBDA r : RatingMatches(r, rf[1]))
     ELSE byText

RECURSIVE Gcd(_, _)
Gcd(a, b) == IF b = 0 THEN a ELSE Gcd(b, a % b)

\* sum / total with the quotient truncated to an integer.
Divide_Truncating(sum, total) == [num |-> sum \div total, den |-> 1]

\* sum / total: the quotient as a fraction in lowest terms
Divide(sum, total) ==
  [num |-> sum \div Gcd(sum, total), den |-> total \div Gcd(sum, total)]

\* reviews.reduce((acc, review) => acc + review.rating, 0)
RECURSIVE SumRatings(_)
SumRatings(revs) ==
  IF revs = <<>> THEN 0 ELSE SumRatings(SubSeq(revs, 1, Len(revs) - 1)) + revs[Len(revs)].rating

\* The histogram step that stores 1 instead of adding 1.
CountRating_Overwrite(acc, rating) ==
  [k \in DOMAIN acc \cup {rating} |-> IF k = rating THEN 1 ELSE acc[k]]

\* acc[review.rating] = (acc[review.rating] || 0) + 1
CountRating(acc, rating) ==
  [k \in DOMAIN acc \cup {rating} |->
     IF k = rating THEN (IF rating \in DOMAIN acc THEN acc[rating] ELSE 0) + 1
     ELSE acc[k]]

\* reviews.reduce(..., {} as Record<number, number>)
RECURSIVE Distribution(_)
Distribution(revs) ==
  IF revs = <<>> THEN <<>>
  ELSE CountRating(Distribution(SubSeq(revs, 1, Len(revs) - 1)), revs[Len(revs)].rating)

\* calculateStats
CalculateStats(revs) ==
  IF Len(revs) = 0
  THEN [average |-> [num |-> 0, den |-> 1], total |-> 0, distribution |-> <<>>]
  ELSE [average |-> Divide(SumRatings(revs), Len(revs)),
        total |-> Len(revs),
        distribution |-> Distribution(revs)]

\* stats.distribution[rating] || 0
BucketCount(st, rating) ==
  IF rating \in DOMAIN st.distribution THEN st.distribution[rating] ELSE 0

\* ---------------------------------------------------------------- review inputs
Review(name, text, rating) ==
  [reviewer_name |-> name, review_text |-> text, rating |-> rating]

\* Two kinds of review for each rating: one matched by its name only (no
\* text), one with a text.
ReviewPool ==
  {Review(NameAb, None, r) : r \in Ratings} \cup {Review(NameB, Some(TextBa), r) : r \in Ratings}

ReviewLists == UNION {[1..n -> ReviewPool] : n \in 0..MaxReviews}

Queries == {<<>>, <<"a">>, <<"a", "b">>, <<"B", "A">>, <<"c">>}

RatingFilters == {None} \cup {Some(r) : r \in Ratings}

\* ---------------------------------------------------------------- view steps
\* Every state change re-renders, and the render calls calculateStats().
Rendered == stats' = CalculateStats(reviews')

\* A step of the review list view alone.
FilterStep == Rendered /\ UNCHANGED <<dbVars, locVars, adminVars>>

\* onChange of the search input: setSearchQuery(e.target.value)
SetSearchQuery ==
  \E q \in Queries :
    /\ ~filterPending
    /\ q # searchQuery
    /\ searchQuery' = q
    /\ filterPending' = TRUE
    /\ UNCHANGED <<reviews, filteredReviews, ratingFilter, reviewsData>>
    /\ FilterStep

\* onClick of "All" and of the five rating buttons: setRatingFilter
SetRatingFilter ==
  \E rf \in RatingFilters :
    /\ ~filterPending
    /\ rf # ratingFilter
    /\ ratingFilter' = rf
    /\ filterPending' = TRUE
    /\ UNCHANGED <<reviews, filteredReviews, searchQuery, reviewsData>>
    /\ FilterStep

\* setReviews(reviewsData || []): the query returned its rows, or null
LoadReviews ==
  \E data \in {reviewsData, <<>>} :
    /\ ~filterPending
    /\ reviews' = data
    /\ filterPending' = TRUE
    /\ UNCHANGED <<filteredReviews, searchQuery, ratingFilter, reviewsData>>
    /\ FilterStep

\* useEffect(() => { filterReviews(); }, [reviews, searchQuery, ratingFilter])
RunFilterEffect ==
  /\ filterPending
  /\ filteredReviews' = FilterReviews(reviews, searchQuery, ratingFilter)
  /\ filterPending' = FALSE
  /\ UNCHANGED <<reviews, searchQuery, ratingFilter, reviewsData>>
  /\ FilterStep

\* The first render, before its effects have run, with a reviews query in flight.
FilterInit ==
  /\ reviews = <<>>
  /\ filteredReviews = <<>>
  /\ searchQuery = <<>>
  /\ ratingFilter = None
  /\ filterPending = TRUE
  /\ stats = CalculateStats(<<>>)
  /\ reviewsData \in ReviewLists

FilterIdle ==
  /\ reviews = <<>>
  /\ filteredReviews = <<>>
  /\ searchQuery = <<>>
  /\ ratingFilter = None
  /\ filterPending = FALSE
  /\ stats = CalculateStats(<<>>)
  /\ reviewsData = <<>>

FilterNext ==
  \/ SetSearchQuery
  \/ SetRatingFilter
  \/ LoadReviews
  \/ RunFilterEffect


\* ================================================================ remote calls
\* What a call of the client can come back with: the datastore's answer, or a
\* transport failure that left the datastore untouched.
Remote(res, locs, revs) == {res, Result(Some(ErrNetwork), {}, locs, revs)}

\* The datastore after a call of the client that came back with `res`.
Stored(res) ==
  /\ locations' = res.locations
  /\ dbReviews' = res.reviews
  /\ UNCHANGED <<lastOp, lastRows>>

\* The rows in ascending order of created_at.
RECURSIVE OrderByCreatedAtDesc_Ascending(_)
OrderByCreatedAtDesc_Ascending(rows) ==
  IF rows = {} THEN <<>>
  ELSE LET first == CHOOSE x \in rows : \A y \in rows : x.created_at <= y.created_at
       IN <<first>> \o OrderByCreatedAtDesc_Ascending(rows \ {first})

\* .order('created_at', { ascending: false })
RECURSIVE OrderByCreatedAtDesc(_)
OrderByCreatedAtDesc(rows) ==
  IF rows = {} THEN <<>>
  ELSE LET first == CHOOSE x \in rows : \A y \in rows : y.created_at <= x.created_at
       IN <<first>> \o OrderByCreatedAtDesc(rows \ {first})

\* .order('review_date', { ascending: false })
RECURSIVE OrderByReviewDateDesc(_)
OrderByReviewDateDesc(rows) ==
  IF rows = {} THEN <<>>
  ELSE LET first == CHOOSE x \in rows : \A y \in rows : y.review_date <= x.review_date
       IN <<first>> \o OrderByReviewDateDesc(rows \ {first})

\* The message of a datastore or transport error.
MessageOf(code) ==
  CASE code = ErrUnique -> "duplicate key value violates unique constraint"
    [] code = ErrRls -> "new row violates row-level security policy"
    [] code = ErrNetwork -> "Failed to fetch"
    [] OTHER -> "database error"

\* ================================================================ AdminDashboard
\* The session of the admin dashboard.
AdminSession == AdminCaller

EmptyForm == [name |-> "", place_id |-> "", telegram_chat_id |-> ""]

FormValues ==
  [name |-> Names \cup {""}, place_id |-> PlaceIds \cup {""},
   telegram_chat_id |-> ChatIds \cup {""}]

Range(seq) == {seq[i] : i \in 1..Len(seq)}

\* fetchLocations: what it does with the answer `res` of its select
FetchLocationsDone(res) ==
  /\ adminLocations' = IF res.err = None THEN OrderByCreatedAtDesc(res.rows)
                       ELSE adminLocations
  /\ adminConsole' = IF res.err = None THEN adminConsole
                     ELSE adminConsole \cup {"Error fetching locations:"}
  /\ adminLoading' = FALSE
  /\ lastCall' = [failed |-> res.err # None]

\* handleCloseModal: the four state changes
ModalClosed ==
  /\ isModalOpen' = FALSE
  /\ editingLocation' = None
  /\ formData' = EmptyForm
  /\ error' = ""

\* err instanceof Error ? err.message : 'Failed to save location'
SaveErrorMessage(code, isError) ==
  IF isError THEN MessageOf(code) ELSE "Failed to save location"

AdminStep == UNCHANGED <<filterVars, locVars>>

\* The fetchLocations call of the mount effect returns.
MountFetchReturn ==
  /\ mountFetch = "fetching"
  /\ \E res \in Remote(SelectAllLocations(AdminSession, locations, dbReviews),
                       locations, dbReviews) :
       /\ Stored(res)
       /\ FetchLocationsDone(res)
  /\ mountFetch' = "done"
  /\ UNCHANGED <<nextLocId, nextRevId, isModalOpen, editingLocation, formData, error,
                 submit, del, adminAlerts>>
  /\ AdminStep

\* handleOpenModal(location?)
HandleOpenModal ==
  /\ ~adminLoading
  /\ \E target \in {None} \cup {Some(l) : l \in Range(adminLocations)} :
       /\ editingLocation' = target
       /\ formData' = IF target = None THEN EmptyForm
                      ELSE [name |-> target[1].name, place_id |-> target[1].place_id,
                            telegram_chat_id |-> target[1].telegram_chat_id]
  /\ error' = ""
  /\ isModalOpen' = TRUE
  /\ UNCHANGED <<dbVars, adminLocations, adminLoading, mountFetch, submit, del,
                 adminConsole, adminAlerts, lastCall>>
  /\ AdminStep

\* handleCloseModal
HandleCloseModal ==
  /\ isModalOpen
  /\ ModalClosed
  /\ UNCHANGED <<dbVars, adminLocations, adminLoading, mountFetch, submit, del,
                 adminConsole, adminAlerts, lastCall>>
  /\ AdminStep

\* onChange of a form input: setFormData({ ...formData, [field]: value })
EditForm ==
  /\ isModalOpen
  /\ \E field \in DOMAIN FormValues :
       \E value \in FormValues[field] :
         /\ value # formData[field]
         /\ formData' = [formData EXCEPT ![field] = value]
  /\ UNCHANGED <<dbVars, adminLocations, adminLoading, isModalOpen, editingLocation,
                 error, mountFetch, submit, del, adminConsole, adminAlerts, lastCall>>
  /\ AdminStep

\* handleSubmit up to its first await: the three inputs are `required`
HandleSubmit ==
  /\ isModalOpen
  /\ submit.pc = "idle"
  /\ \A field \in DOMAIN FormValues : formData[field] # ""
  /\ error' = ""
  /\ submit' = [pc |-> "write", editing |-> editingLocation, form |-> formData]
  /\ UNCHANGED <<dbVars, adminLocations, adminLoading, isModalOpen, editingLocation,
                 formData, mountFetch, del, adminConsole, adminAlerts, lastCall>>
  /\ AdminStep

\* The update or insert of handleSubmit
SubmitWrite(editing, form, locs, revs) ==
  IF editing # None
  THEN UpdateLocation(AdminSession, editing[1].id, form, locs, revs)
  ELSE InsertLocation(AdminSession, nextLocId, form, locs, revs)

\* The write of handleSubmit returns: on an error the catch sets the message,
\* otherwise fetchLocations is called.
SubmitWriteReturn ==
  /\ submit.pc = "write"
  /\ \E res \in Remote(SubmitWrite(submit.editing, submit.form, locations, dbReviews),
                       locations, dbReviews) :
       LET inserted == submit.editing = None /\ res.err = None
       IN /\ inserted => nextLocId <= MaxLocations
          /\ Stored(res)
          /\ nextLocId' = IF inserted THEN nextLocId + 1 ELSE nextLocId
          /\ lastCall' = [failed |-> res.err # None]
          /\ IF res.err # None
             THEN /\ \E isError \in BOOLEAN : error' = SaveErrorMessage(res.err[1], isError)
                  /\ submit' = [pc |-> "idle"]
             ELSE /\ error' = error
                  /\ submit' = [submit EXCEPT !.pc = "fetch"]
  /\ UNCHANGED <<nextRevId, adminLocations, adminLoading, isModalOpen, editingLocation,
                 formData, mountFetch, del, adminConsole, adminAlerts>>
  /\ AdminStep

\* The fetchLocations call of handleSubmit returns, then handleCloseModal().
SubmitFetchReturn ==
  /\ submit.pc = "fetch"
  /\ \E res \in Remote(SelectAllLocations(AdminSession, locations, dbReviews),
                       locations, dbReviews) :
       /\ Stored(res)
       /\ FetchLocationsDone(res)
  /\ ModalClosed
  /\ submit' = [pc |-> "idle"]
  /\ UNCHANGED <<nextLocId, nextRevId, mountFetch, del, adminAlerts>>
  /\ AdminStep

\* handleDelete(location.id) up to its await; a declined confirm() returns.
HandleDelete ==
  /\ ~adminLoading
  /\ del.pc = "idle"
  /\ \E l \in Range(adminLocations), confirmed \in BOOLEAN :
       del' = IF confirmed THEN [pc |-> "delete", id |-> l.id] ELSE del
  /\ UNCHANGED <<dbVars, adminLocations, adminLoading, isModalOpen, editingLocation,
                 formData, error, mountFetch, submit, adminConsole, adminAlerts, lastCall>>
  /\ AdminStep

\* The delete of handleDelete returns.
DeleteWriteReturn ==
  /\ del.pc = "delete"
  /\ \E res \in Remote(DeleteLocation(AdminSession, del.id, locations, dbReviews),
                       locations, dbReviews) :
       /\ Stored(res)
       /\ lastCall' = [failed |-> res.err # None]
       /\ IF res.err # None
          THEN /\ adminConsole' = adminConsole \cup {"Error deleting location:"}
               /\ adminAlerts' = adminAlerts \cup {"Failed to delete location"}
               /\ del' = [pc |-> "idle"]
          ELSE /\ UNCHANGED <<adminConsole, adminAlerts>>
               /\ del' = [pc |-> "fetch"]
  /\ UNCHANGED <<nextLocId, nextRevId, adminLocations, adminLoading, isModalOpen,
                 editingLocation, formData, error, mountFetch, submit>>
  /\ AdminStep

\* The fetchLocations call of handleDelete returns.
DeleteFetchReturn ==
  /\ del.pc = "fetch"
  /\ \E res \in Remote(SelectAllLocations(AdminSession, locations, dbReviews),
                       locations, dbReviews) :
       /\ Stored(res)
       /\ FetchLocationsDone(res)
  /\ del' = [pc |-> "idle"]
  /\ UNCHANGED <<nextLocId, nextRevId, isModalOpen, editingLocation, formData, error,
                 mountFetch, submit, adminAlerts>>
  /\ AdminStep

AdminNext ==
  \/ MountFetchReturn
  \/ HandleOpenModal
  \/ HandleCloseModal
  \/ EditForm
  \/ HandleSubmit
  \/ SubmitWriteReturn
  \/ SubmitFetchReturn
  \/ HandleDelete
  \/ DeleteWriteReturn
  \/ DeleteFetchReturn

\* ================================================================ LocationDashboard fetch
\* The session of the signed-in location user `u`.
UserSession(u) == UserCaller(u.id)

\* .maybeSingle(): no row is null data, one row is the row, more is an error
MaybeSingle(res) ==
  IF res.err # None THEN [err |-> res.err, data |-> None]
  ELSE IF Cardinality(res.rows) > 1 THEN [err |-> Some("PGRST116"), data |-> None]
  ELSE IF res.rows = {} THEN [err |-> None, data |-> None]
  ELSE [err |-> None, data |-> Some(CHOOSE l \in res.rows : TRUE)]

\* What the component renders: the spinner, the "No Location Assigned"
\* guidance, or the dashboard.
LocView ==
  IF loading THEN "spinner" ELSE IF location = None THEN "no-location" ELSE "dashboard"

LocStep == UNCHANGED <<dbVars, adminVars, searchQuery, ratingFilter, reviewsData>>

\* The users that may be signed in: none, or one with or without an email.
UserInputs ==
  {None} \cup {Some([id |-> u, email |-> e]) : u \in UserIds, e \in {None, Some("e1")}}

\* The calls of fetchLocationAndReviews that can be running: the one the
\* latest run of the effect started, and one an earlier run started (nothing
\* cancels a call when the user changes).
Slots == {"fetch", "older"}
Call(slot) == IF slot = "fetch" THEN fetch ELSE older
Becomes(slot, f) ==
  IF slot = "fetch" THEN fetch' = f /\ older' = older
  ELSE older' = f /\ fetch' = fetch

\* The call awaits an answer.
InFlight(f) == f.pc \in {"lookup", "fallback", "reviews"}

\* catch: console.error('Error fetching data:', err); finally: setLoading(false)
FetchThrew(slot, net) ==
  /\ locConsole' = locConsole \cup {"Error fetching data:"}
  /\ loading' = FALSE
  /\ Becomes(slot, [pc |-> "done", outcome |-> "error", net |-> net,
                    at |-> Call(slot).pc])

\* if (!locationData) { alert(...); return; } and the finally
NoLocationFound(slot) ==
  /\ locAlerts' = locAlerts \cup {"No location assigned to your account."}
  /\ loading' = FALSE
  /\ Becomes(slot, [pc |-> "done", outcome |-> "nolocation", net |-> FALSE,
                    at |-> Call(slot).pc])

\* setLocation(locationData), then the reviews query is issued
LocationFound(slot, data) ==
  /\ location' = data
  /\ Becomes(slot, [pc |-> "reviews", user |-> Call(slot).user,
                    locId |-> data[1].id, net |-> FALSE])

\* The column fetchLocationAndReviews matches the user's email against.
FallbackColumn == "email"

\* useAuth().user changes: sign-in, sign-out, another account. The effect
\* on [user] is scheduled again; a call still awaiting its answer goes on.
AuthChange ==
  /\ userChanges < MaxUserChanges
  /\ ~(InFlight(fetch) /\ InFlight(older))
  /\ \E u \in UserInputs : u # user /\ user' = u
  /\ userChanges' = userChanges + 1
  /\ fetch' = [pc |-> "effect"]
  /\ older' = IF InFlight(fetch) THEN fetch ELSE older
  /\ UNCHANGED <<location, loading, locConsole, locAlerts, reviews,
                 filteredReviews, filterPending, stats>>
  /\ LocStep

\* useEffect(() => { fetchLocationAndReviews(); }, [user]) up to the first
\* await: without a user the function returns at once.
RunFetchEffect ==
  /\ fetch.pc = "effect"
  /\ fetch' = IF user = None
              THEN [pc |-> "done", outcome |-> "nouser", net |-> FALSE, at |-> "effect"]
              ELSE [pc |-> "lookup", user |-> user[1], net |-> FALSE]
  /\ UNCHANGED <<user, userChanges, location, loading, older, locConsole, locAlerts, reviews,
                 filteredReviews, filterPending, stats>>
  /\ LocStep

\* The lookup by user_id returns.
LookupReturn ==
  /\ \E slot \in Slots :
       /\ Call(slot).pc = "lookup"
       /\ \E res \in Remote(SelectLocations(UserSession(Call(slot).user), "user_id",
                                            Call(slot).user.id, locations, dbReviews),
                            locations, dbReviews) :
            LET got == MaybeSingle(res)
                net == res.err = Some(ErrNetwork)
            IN IF got.err # None
               THEN /\ FetchThrew(slot, net)
                    /\ UNCHANGED <<location, locAlerts>>
               ELSE IF got.data = None /\ Call(slot).user.email # None
               THEN /\ Becomes(slot, [Call(slot) EXCEPT !.pc = "fallback"])
                    /\ UNCHANGED <<location, loading, locConsole, locAlerts>>
               ELSE IF got.data = None
               THEN /\ NoLocationFound(slot)
                    /\ UNCHANGED <<location, locConsole>>
               ELSE /\ LocationFound(slot, got.data)
                    /\ UNCHANGED <<loading, locConsole, locAlerts>>
  /\ UNCHANGED <<user, userChanges, reviews, filteredReviews, filterPending, stats>>
  /\ LocStep

\* The fallback lookup by email returns.
FallbackReturn ==
  /\ \E slot \in Slots :
       /\ Call(slot).pc = "fallback"
       /\ \E res \in Remote(SelectLocations(UserSession(Call(slot).user), FallbackColumn,
                                            Call(slot).user.email[1], locations, dbReviews),
                            locations, dbReviews) :
            LET got == MaybeSingle(res)
                net == res.err = Some(ErrNetwork)
            IN IF got.err # None
               THEN /\ FetchThrew(slot, net)
                    /\ UNCHANGED <<location, locAlerts>>
               ELSE IF got.data = None
               THEN /\ NoLocationFound(slot)
                    /\ UNCHANGED <<location, locConsole>>
               ELSE /\ LocationFound(slot, got.data)
                    /\ UNCHANGED <<loading, locConsole, locAlerts>>
  /\ UNCHANGED <<user, userChanges, reviews, filteredReviews, filterPending, stats>>
  /\ LocStep

\* The reviews query returns: setReviews(reviewsData || []), setLoading(false).
ReviewsReturn ==
  /\ \E slot \in Slots :
       /\ Call(slot).pc = "reviews"
       /\ \E res \in Remote(SelectReviews(UserSession(Call(slot).user), Call(slot).locId,
                                          locations, dbReviews),
                            locations, dbReviews) :
            IF res.err # None
            THEN /\ FetchThrew(slot, res.err = Some(ErrNetwork))
                 /\ UNCHANGED <<reviews, filterPending, stats>>
            ELSE /\ reviews' = OrderByReviewDateDesc(res.rows)
                 /\ filterPending' = TRUE
                 /\ Rendered
                 /\ loading' = FALSE
                 /\ Becomes(slot, [pc |-> "done", outcome |-> "loaded", net |-> FALSE,
                                   at |-> "reviews"])
                 /\ UNCHANGED locConsole
  /\ UNCHANGED <<user, userChanges, location, locAlerts, filteredReviews>>
  /\ LocStep

LocNext ==
  \/ AuthChange
  \/ RunFetchEffect
  \/ LookupReturn
  \/ FallbackReturn
  \/ ReviewsReturn
  \/ RunFilterEffect

\* ================================================================ specifications
LocIdle ==
  /\ user = None
  /\ location = None
  /\ loading = TRUE
  /\ fetch = [pc |-> "idle"]
  /\ older = [pc |-> "idle"]
  /\ userChanges = 0
  /\ locConsole = {}
  /\ locAlerts = {}

AdminIdle ==
  /\ adminLocations = <<>>
  /\ adminLoading = TRUE
  /\ isModalOpen = FALSE
  /\ editingLocation = None
  /\ formData = EmptyForm
  /\ error = ""
  /\ mountFetch = "idle"
  /\ submit = [pc |-> "idle"]
  /\ del = [pc |-> "idle"]
  /\ adminConsole = {}
  /\ adminAlerts = {}
  /\ lastCall = [failed |-> FALSE]

\* The datastore on its own, called by any caller.
InitDb == DbInit /\ FilterIdle /\ LocIdle /\ AdminIdle

SpecDb == InitDb /\ [][DbNext]_vars

\* The first render of AdminDashboard, its mount effect having called fetchLocations.
AdminInit ==
  /\ adminLocations = <<>>
  /\ adminLoading = TRUE
  /\ isModalOpen = FALSE
  /\ editingLocation = None
  /\ formData = EmptyForm
  /\ error = ""
  /\ mountFetch = "fetching"
  /\ submit = [pc |-> "idle"]
  /\ del = [pc |-> "idle"]
  /\ adminConsole = {}
  /\ adminAlerts = {}
  /\ lastCall = [failed |-> FALSE]

InitAdmin == DbInit /\ FilterIdle /\ LocIdle /\ AdminInit

\* AdminDashboard over the datastore, the admin its only caller.
SpecAdmin == InitAdmin /\ [][AdminNext]_vars

\* The tables of a datastore that holds the locations f[i] and the reviews g[i].
LocationsOf(f) == {NewLocation(i, f[i][1]) : i \in {j \in DOMAIN f : f[j] # None}}
ReviewsOf(g) == {NewReview(i, g[i][1], MaxRating) : i \in {j \in DOMAIN g : g[j] # None}}

PlaceIdsDistinct(locs) == \A a, b \in locs : a.place_id = b.place_id => a.id = b.id

\* Any datastore its constraints allow, left alone while the dashboard runs.
LocDbInit ==
  /\ locations \in
       {locs \in {LocationsOf(f) :
                    f \in [1..MaxLocations -> {None} \cup {Some(form) : form \in LocationForms}]} :
          PlaceIdsDistinct(locs)}
  /\ dbReviews \in
       {ReviewsOf(g) : g \in [1..MaxReviewRows -> {None} \cup {Some(id) : id \in Ids(locations)}]}
  /\ nextLocId = MaxLocations + 1
  /\ nextRevId = MaxReviewRows + 1
  /\ lastOp = [op |-> "none", caller |-> ServiceCaller, err |-> None, removed |-> {}]
  /\ lastRows = {}

\* The first render of LocationDashboard, before its two effects have run.
LocInit ==
  /\ user \in UserInputs
  /\ location = None
  /\ loading = TRUE
  /\ fetch = [pc |-> "effect"]
  /\ older = [pc |-> "idle"]
  /\ userChanges = 0
  /\ locConsole = {}
  /\ locAlerts = {}

FilterMount ==
  /\ reviews = <<>>
  /\ filteredReviews = <<>>
  /\ searchQuery = <<>>
  /\ ratingFilter = None
  /\ filterPending = TRUE
  /\ stats = CalculateStats(<<>>)
  /\ reviewsData = <<>>

InitLoc == LocDbInit /\ FilterMount /\ LocInit /\ AdminIdle

\* LocationDashboard's fetch over a datastore.
SpecLoc == InitLoc /\ [][LocNext]_vars

\* The review list view of LocationDashboard: search, rating filter, loads.
InitFilter == DbInit /\ FilterInit /\ LocIdle /\ AdminIdle

SpecFilter == InitFilter /\ [][FilterNext]_vars
\* The call in `slot` gets its answer.
Returns(slot) ==
  /\ LookupReturn \/ FallbackReturn \/ ReviewsReturn
  /\ Call(slot)' # Call(slot)

\* A scheduled effect runs and every remote call returns; nothing obliges the
\* signed-in user to change.
LocFairness ==
  /\ WF_vars(RunFetchEffect)
  /\ WF_vars(RunFilterEffect)
  /\ \A slot \in Slots : WF_vars(Returns(slot))

SpecLocLive == InitLoc /\ [][LocNext]_vars /\ LocFairness

\* Every remote call of AdminDashboard returns; nothing obliges the admin to act.
AdminFairness ==
  /\ WF_vars(MountFetchReturn)
  /\ WF_vars(SubmitWriteReturn)
  /\ WF_vars(SubmitFetchReturn)
  /\ WF_vars(DeleteWriteReturn)
  /\ WF_vars(DeleteFetchReturn)

SpecAdminLive == InitAdmin /\ [][AdminNext]_vars /\ AdminFairness

\* ================================================================ properties
\* s contains t, compared without regard to case.
ContainsCI(s, t) ==
  \E i \in 1..(Len(s) + 1) :
    \A k \in 1..Len(t) : i + k - 1 <= Len(s) /\ LowerChar(s[i + k - 1]) = LowerChar(t[k])

TextKept(r, q) ==
  \/ q = <<>>
  \/ ContainsCI(r.reviewer_name, q)
  \/ r.review_text # None /\ ContainsCI(r.review_text[1], q)

Kept(r, q, rf) == TextKept(r, q) /\ (rf = None \/ r.rating = rf[1])

RECURSIVE KeptOf(_, _, _)
KeptOf(revs, q, rf) ==
  IF revs = <<>> THEN <<>>
  ELSE IF Kept(Head(revs), q, rf)
       THEN <<Head(revs)>> \o KeptOf(Tail(revs), q, rf)
       ELSE KeptOf(Tail(revs), q, rf)

\* C1: once the filter effect has run, the displayed list is exactly the
\* reviews of the current list that match the query (empty query, or name or
\* non-null text containing it case-insensitively) and the rating filter
\* (none, or equal rating), in the order of the review list.
C1_DisplayedIsTheMatches ==
  ~filterPending => filteredReviews = KeptOf(reviews, searchQuery, ratingFilter)

\* A query in another case than the text it matches, with a rating filter,
\* keeps one review of two.
C1_Witness ==
  /\ ~filterPending
  /\ searchQuery = <<"B", "A">>
  /\ ratingFilter # None
  /\ Len(reviews) = 2
  /\ Len(filteredReviews) = 1

\* C2: with rating filter R in 1..5 the displayed list holds only reviews of
\* rating R, and every review of rating R that passes the text predicate;
\* with an empty search text and no rating filter it is the full list.
C2_RatingFilterAndEmptyText ==
  ~filterPending =>
    /\ \A R \in Ratings :
         ratingFilter = Some(R) =>
           /\ \A j \in 1..Len(filteredReviews) : filteredReviews[j].rating = R
           /\ \A i \in 1..Len(reviews) :
                (reviews[i].rating = R /\ TextKept(reviews[i], searchQuery)) =>
                  \E j \in 1..Len(filteredReviews) : filteredReviews[j] = reviews[i]
    /\ (searchQuery = <<>> /\ ratingFilter = None) => filteredReviews = reviews

\* Rating filter 1 over a list with a 1-star and a 5-star review.
C2_Witness ==
  /\ ~filterPending
  /\ ratingFilter = Some(MinRating)
  /\ Len(reviews) = 2
  /\ \E i \in 1..2 : reviews[i].rating = MaxRating
  /\ Len(filteredReviews) = 1

CountOf(revs, r) == Cardinality({i \in 1..Len(revs) : revs[i].rating = r})

RatingTotal(revs) ==
  LET S[r \in 0..MaxRating] == IF r = 0 THEN 0 ELSE S[r - 1] + r * CountOf(revs, r)
  IN S[MaxRating]

\* C3: total is the length of the review list and average is the mean of its
\* ratings (average * total = sum of the ratings), 0 and 0 for the empty
\* list, whatever the search query and rating filter are.
C3_StatsAreTotalAndMean ==
  /\ stats.total = Len(reviews)
  /\ stats.average.den > 0
  /\ stats.average.num * Len(reviews) = RatingTotal(reviews) * stats.average.den
  /\ reviews = <<>> => stats.average.num = 0 /\ stats.total = 0

\* A list of two whose mean is no integer, while the filter displays one.
C3_Witness ==
  /\ ~filterPending
  /\ Len(reviews) = 2
  /\ Len(filteredReviews) = 1
  /\ stats.average.den = 2

\* C4: the five displayed bucket counts (a missing bucket read as 0) add up
\* to the length of the review list.
C4_BucketsSumToLength ==
  LET B[r \in 0..MaxRating] == IF r = 0 THEN 0 ELSE B[r - 1] + BucketCount(stats, r)
  IN B[MaxRating] = Len(reviews)

\* Two reviews in one bucket, the other four missing.
C4_Witness ==
  /\ Len(reviews) = 2
  /\ BucketCount(stats, MaxRating) = 2
  /\ DOMAIN stats.distribution = {MaxRating}

NonAdmin(c) == c.pg_role = "authenticated" /\ c.app_role # "admin"

\* C5: a select on locations by an authenticated caller without the admin
\* role returns no row whose user_id differs from the caller's identity (a
\* null user_id included), and a select on reviews returns no review whose
\* location the caller does not own.
C5_NonAdminSeesOnlyOwn ==
  NonAdmin(lastOp.caller) =>
    /\ lastOp.op = "selectLocations" =>
         \A l \in locations : l.id \in lastRows => l.user_id = lastOp.caller.uid
    /\ lastOp.op = "selectReviews" =>
         \A r \in dbReviews :
           r.id \in lastRows =>
             \E l \in locations : l.id = r.location_id /\ l.user_id = lastOp.caller.uid

\* A user's select returned the user's own location and held back an
\* unassigned one.
C5_Witness ==
  /\ lastOp.op = "selectLocations"
  /\ NonAdmin(lastOp.caller)
  /\ lastRows # {}
  /\ \E l \in locations : l.user_id = None /\ l.id \notin lastRows

\* Session claims of authenticated callers: each identity with and without
\* the admin role.
ClaimCallers ==
  {[pg_role |-> "authenticated", uid |-> Some(u), app_role |-> r] :
     u \in UserIds \cup {"a1"}, r \in {"admin", "none"}}

\* C6: a caller whose claims carry the admin role selects every location and
\* review row and may insert, update and delete every location row, whoever
\* owns it; the role comes from the claims alone: owning rows grants no write.
C6_AdminReadsAndWritesAll ==
  /\ \A c \in ClaimCallers :
       IF c.app_role = "admin"
       THEN /\ SelectAllLocations(c, locations, dbReviews).rows = locations
            /\ \A id \in 1..MaxLocations :
                 SelectReviews(c, id, locations, dbReviews).rows
                   = {r \in dbReviews : r.location_id = id}
            /\ \A l \in locations :
                 DeleteLocation(c, l.id, locations, dbReviews).locations = locations \ {l}
            /\ \A l \in locations, patch \in LocationPatches :
                 LET res == UpdateLocation(c, l.id, patch, locations, dbReviews)
                 IN /\ res.err \in {None, Some(ErrUnique)}
                    /\ res.err = None => Patched(l, patch) \in res.locations
            /\ \A form \in LocationForms :
                 LET res == InsertLocation(c, nextLocId, form, locations, dbReviews)
                 IN /\ res.err \in {None, Some(ErrUnique)}
                    /\ res.err = None => NewLocation(nextLocId, form) \in res.locations
       ELSE /\ \A form \in LocationForms :
                 InsertLocation(c, nextLocId, form, locations, dbReviews).err = Some(ErrRls)
            /\ \A l \in locations, patch \in LocationPatches :
                 UpdateLocation(c, l.id, patch, locations, dbReviews).locations = locations
            /\ \A l \in locations :
                 DeleteLocation(c, l.id, locations, dbReviews).locations = locations
  /\ lastOp.caller = AdminCaller =>
       /\ lastOp.op \in {"insertLocation", "updateLocation", "deleteLocation",
                         "selectLocations", "selectReviews"} => lastOp.err # Some(ErrRls)
       /\ lastOp.op = "selectLocations" => lastRows = Ids(locations)

\* The admin has just updated a location that another user owns.
C6_Witness ==
  /\ lastOp.op = "updateLocation"
  /\ lastOp.caller = AdminCaller
  /\ lastOp.err = None
  /\ \E l \in locations : l.id \in lastRows /\ l.user_id = Some("u1")

\* Every review references exactly one existing location.
ReviewsReferenceOneLocation ==
  \A r \in dbReviews : Cardinality({l \in locations : l.id = r.location_id}) = 1

\* C7: a location delete leaves no review of the deleted location and leaves
\* the reviews of every other location as they were; after every insert,
\* update and delete each review references exactly one existing location.
C7_DeleteCascades ==
  [][/\ ReviewsReferenceOneLocation'
     /\ lastOp'.op = "deleteLocation" =>
          /\ Ids(locations) \ Ids(locations') = lastRows'
          /\ dbReviews' = {r \in dbReviews : r.location_id \notin lastRows'}]_vars

\* A delete has just removed a location together with a review of it.
C7_Witness ==
  /\ lastOp.op = "deleteLocation"
  /\ lastRows # {}
  /\ lastOp.removed # {}

\* C8: every review stored has a rating in {1,2,3,4,5}; an insert or update
\* with a rating outside 1..5 is rejected and leaves the reviews table as it was.
C8_RatingOutsideRangeRejected ==
  /\ \A r \in dbReviews : r.rating \in {1, 2, 3, 4, 5}
  /\ \A c \in Callers, rating \in RatingInputs \ {1, 2, 3, 4, 5} :
       /\ \A id \in 1..MaxLocations :
            LET res == InsertReview(c, NewReview(nextRevId, id, rating), locations, dbReviews)
            IN res.err # None /\ res.reviews = dbReviews
       /\ \A r \in dbReviews :
            LET res == UpdateReview(c, r.id, [rating |-> rating], locations, dbReviews)
            IN /\ res.reviews = dbReviews
               /\ c = ServiceCaller => res.err = Some(ErrCheck)
  /\ lastOp.err = Some(ErrCheck) =>
       lastOp.op \in {"insertReview", "updateReview"} /\ lastRows = {}

\* An update of a stored review to a rating outside the range was rejected.
C8_Witness ==
  /\ lastOp.op = "updateReview"
  /\ lastOp.err = Some(ErrCheck)
  /\ dbReviews # {}
\* No two location rows hold the same place_id.
PlaceIdsUnique == PlaceIdsDistinct(locations)

\* The submit in flight would give a location a place_id that another holds.
WouldDuplicate ==
  /\ submit.pc = "write"
  /\ \E l \in locations :
       /\ l.place_id = submit.form.place_id
       /\ \/ submit.editing = None
          \/ /\ l.id # submit.editing[1].id
             /\ \E t \in locations : t.id = submit.editing[1].id

\* C9: no two location rows ever have the same place_id; when the write of a
\* submit that would duplicate a place_id returns, the submit ends there, the
\* locations table is as before, the modal is left as it was (open), and the
\* error message is not empty.
C9_DuplicatePlaceIdRejected ==
  [][/\ PlaceIdsUnique'
     /\ (WouldDuplicate /\ submit'.pc # "write") =>
          /\ submit'.pc = "idle"
          /\ locations' = locations
          /\ isModalOpen' = isModalOpen
          /\ error' # ""]_vars

\* An update was rejected as a duplicate: the modal is open and shows the message.
C9_Witness ==
  /\ submit.pc = "idle"
  /\ isModalOpen
  /\ editingLocation # None
  /\ error = MessageOf(ErrUnique)
  /\ \E l \in locations : l.id # editingLocation[1].id /\ l.place_id = formData.place_id

\* No location is assigned to the signed-in user.
NoLocationAssigned ==
  /\ user # None
  /\ \A l \in locations : l.user_id # Some(user[1].id)

\* C10: when no location is assigned to the signed-in user and every call is
\* answered, fetchLocationAndReviews ends with loading false, location null
\* and the guidance rendered, and gets there without an error thrown or logged.
C10_NoLocationIsANormalOutcome ==
  (fetch.pc = "done" /\ NoLocationAssigned /\ ~fetch.net) =>
    /\ loading = FALSE
    /\ location = None
    /\ LocView = "no-location"
    /\ fetch.outcome = "nolocation"
    /\ locConsole = {}

\* No call of fetchLocationAndReviews awaits an answer or is about to start.
NoFetchInFlight == fetch.pc = "done" /\ ~InFlight(older)

\* The state the view renders from.
ViewState ==
  [location |-> location, reviews |-> reviews, filteredReviews |-> filteredReviews,
   loading |-> loading]

\* The view state after a lookup that was answered and found no location,
\* on a fresh mount.
NoLocationViewState ==
  [location |-> None, reviews |-> <<>>, filteredReviews |-> <<>>, loading |-> FALSE]

\* C11: the view state after a failed remote call (location lookup or review
\* fetch) is never the view state after an answered lookup that found no
\* assigned location.
C11_ErrorViewIsNotNoLocationView ==
  (fetch.pc = "done" /\ fetch.outcome = "error") => ViewState # NoLocationViewState

\* An answered lookup that found no location ends in NoLocationViewState.
C11_NoLocationView ==
  /\ fetch = [pc |-> "done", outcome |-> "nolocation", net |-> FALSE, at |-> "lookup"]
  /\ older.pc = "idle"
  /\ ViewState = NoLocationViewState

\* A fetchLocations call has just returned, from the mount effect, from
\* handleSubmit or from handleDelete.
FetchLocationsReturned ==
  \/ mountFetch = "fetching" /\ mountFetch' = "done"
  \/ submit.pc = "fetch" /\ submit'.pc # "fetch"
  \/ del.pc = "fetch" /\ del'.pc # "fetch"

\* The remote call that has just returned, and it failed.
ListFetchFailed == FetchLocationsReturned /\ lastCall'.failed
SubmitWriteFailed == submit.pc = "write" /\ submit'.pc # "write" /\ lastCall'.failed
DeleteWriteFailed == del.pc = "delete" /\ del'.pc # "delete" /\ lastCall'.failed
UserFetchFailed(slot) ==
  /\ InFlight(Call(slot))
  /\ Call(slot)'.pc = "done"
  /\ Call(slot)'.outcome = "error"

\* A message is on the screen of the admin dashboard: the text in the modal
\* or an alert.
AdminMessageShown == (isModalOpen /\ error # "") \/ adminAlerts # {}

\* C12: every failing remote call of either dashboard ends its handler there
\* (caught, nothing retried or issued after it), is logged with
\* console.error, and puts an error message before the user.
C12_FailuresCaughtLoggedSurfaced ==
  [][/\ ListFetchFailed =>
          /\ "Error fetching locations:" \in adminConsole'
          /\ AdminMessageShown'
     /\ SubmitWriteFailed =>
          /\ submit'.pc = "idle"
          /\ adminConsole' \ {"Error fetching locations:", "Error deleting location:"} # {}
          /\ AdminMessageShown'
     /\ DeleteWriteFailed =>
          /\ del'.pc = "idle"
          /\ "Error deleting location:" \in adminConsole'
          /\ AdminMessageShown'
     /\ \A slot \in Slots :
          UserFetchFailed(slot) =>
            /\ "Error fetching data:" \in locConsole'
            /\ locAlerts' \ {"No location assigned to your account."} # {}]_vars

\* What holds of the failing calls, handler by handler.
FailuresAsHandled ==
  [][/\ ListFetchFailed =>
          /\ "Error fetching locations:" \in adminConsole'
          /\ adminAlerts' = adminAlerts /\ error' = error
     /\ SubmitWriteFailed =>
          /\ submit'.pc = "idle"
          /\ adminConsole' = adminConsole
          /\ error' # ""
     /\ DeleteWriteFailed =>
          /\ del'.pc = "idle"
          /\ "Error deleting location:" \in adminConsole'
          /\ "Failed to delete location" \in adminAlerts'
     /\ \A slot \in Slots :
          UserFetchFailed(slot) =>
            /\ "Error fetching data:" \in locConsole'
            /\ locAlerts' = locAlerts]_vars

\* The action leaves the listed view state of AdminDashboard as it is.
AdminViewKept == adminLocations' = adminLocations /\ isModalOpen' = isModalOpen

\* The action leaves the listed view state of LocationDashboard as it is.
UserViewKept == location' = location /\ reviews' = reviews

\* C13: an action has one remote call outstanding at a time, the next issued
\* when the one before has returned; until the last of its calls has
\* returned the action changes none of the locations list, the modal open
\* flag, location and reviews; after a failed write no re-fetch is issued.
C13_CallsInSequenceViewAfterLast ==
  [][/\ (submit.pc = "idle" /\ submit'.pc = "write") => AdminViewKept
     /\ (submit.pc = "write" /\ submit'.pc = "fetch") =>
          AdminViewKept /\ ~lastCall'.failed
     /\ SubmitWriteFailed => submit'.pc = "idle"
     /\ (del.pc = "idle" /\ del'.pc = "delete") => AdminViewKept
     /\ (del.pc = "delete" /\ del'.pc = "fetch") =>
          AdminViewKept /\ ~lastCall'.failed
     /\ DeleteWriteFailed => del'.pc = "idle"
     /\ (fetch.pc = "effect" /\ fetch'.pc = "lookup") => UserViewKept
     /\ \A slot \in Slots :
          (InFlight(Call(slot)) /\ InFlight(Call(slot)') /\ Call(slot)' # Call(slot)) => UserViewKept]_vars

\* The same with location left out of the view state of the dashboard load.
CallsInSequenceButLocation ==
  [][/\ (submit.pc = "idle" /\ submit'.pc = "write") => AdminViewKept
     /\ (submit.pc = "write" /\ submit'.pc = "fetch") =>
          AdminViewKept /\ ~lastCall'.failed
     /\ SubmitWriteFailed => submit'.pc = "idle"
     /\ (del.pc = "idle" /\ del'.pc = "delete") => AdminViewKept
     /\ (del.pc = "delete" /\ del'.pc = "fetch") =>
          AdminViewKept /\ ~lastCall'.failed
     /\ DeleteWriteFailed => del'.pc = "idle"
     /\ (fetch.pc = "effect" /\ fetch'.pc = "lookup") => UserViewKept
     /\ \A slot \in Slots :
          (InFlight(Call(slot)) /\ InFlight(Call(slot)') /\ Call(slot)' # Call(slot)) => reviews' = reviews]_vars

\* The list holds exactly the rows of the locations table, newest first.
ListIsTheTable(list, table) ==
  /\ Len(list) = Cardinality(table)
  /\ Range(list) = table
  /\ \A i, j \in 1..Len(list) : i < j => list[i].created_at >= list[j].created_at

\* handleSubmit or handleDelete has just completed after a write that succeeded.
SubmitCompleted == submit.pc = "fetch" /\ submit'.pc = "idle"
DeleteCompleted == del.pc = "fetch" /\ del'.pc = "idle"

\* A step of handleSubmit has closed the modal.
SubmitClosedModal == submit' # submit /\ isModalOpen /\ ~isModalOpen'

C15_LoadingSettles ==
  /\ (fetch.pc # "idle") ~> ~loading
  /\ (mountFetch # "idle") ~> ~adminLoading
  /\ [](~loading => []~loading)
  /\ [](~adminLoading => []~adminLoading)

\* A call of fetchLocationAndReviews that got past `if (!user) return` ends
\* with loading false, and loading never turns true again.
LoadingSettlesWithUser ==
  /\ InFlight(fetch) ~> ~loading
  /\ [](~loading => []~loading)

\* The mount of AdminDashboard reaches loading false for good.
AdminLoadingSettles ==
  /\ (mountFetch # "idle") ~> ~adminLoading
  /\ [](~adminLoading => []~adminLoading)

\* The held location is one assigned to the signed-in user.
HeldLocationIsTheUsers ==
  /\ user # None
  /\ location[1].user_id = Some(user[1].id)

\* C16: whenever no fetch is in flight, the held location is null or a
\* location assigned to the current user, every held review belongs to the
\* held location, and no review is held when the location is null.
C16_HeldDataIsTheCurrentUsers ==
  NoFetchInFlight =>
    /\ location = None \/ HeldLocationIsTheUsers
    /\ location = None => reviews = <<>>
    /\ location # None =>
         \A i \in 1..Len(reviews) : reviews[i].location_id = location[1].id

\* The location a modal or a submit is for: none for "Add Location".
TargetId(editing) == IF editing = None THEN None ELSE Some(editing[1].id)

\* While the modal is closed nothing is left in it.
ClosedModalIsEmpty ==
  ~isModalOpen => editingLocation = None /\ formData = EmptyForm /\ error = ""

\* A step of the submit in flight, taken while the modal is open for
\* another location than the one the submit was issued for.
SubmitStepUnderOtherModal ==
  /\ submit.pc # "idle"
  /\ submit' # submit
  /\ isModalOpen
  /\ TargetId(editingLocation) # TargetId(submit.editing)

\* The modal is left open, for the same location, with the same fields.
ModalKept ==
  /\ isModalOpen'
  /\ editingLocation' = editingLocation
  /\ formData' = formData

\* C17: in every reachable state a closed modal has editingLocation null,
\* empty form fields and an empty error message; and the completion of a
\* submit never closes or resets a modal opened for a different location
\* after that submit was issued.
C17_ClosedModalEmptyAndNotClosedByStaleSubmit ==
  [][/\ ClosedModalIsEmpty'
     /\ SubmitStepUnderOtherModal => ModalKept]_vars

\* The first half of C17 on its own.
ClosedModalStaysEmpty == [][ClosedModalIsEmpty']_vars

\* The second half of C17 on its own.
StaleSubmitKeepsModal == [][SubmitStepUnderOtherModal => ModalKept]_vars
====
